---- MODULE Spec2Model ----
(***************************************************************************)
(* Oxomo: checkpointed OAI-PMH harvesting.                                 *)
(*   OxomoCheckPoint (CheckPoint.py): create / exists / drop /             *)
(*     update_record / update_set / get_records_regs / get_sets_regs       *)
(*   OxomoHarvester (OxomoHarvester.py): process_record / process_set / run*)
(* The MongoDB database is the shared state; the OAI-PMH client is the     *)
(* environment, whose answers are chosen nondeterministically per call.    *)
(***************************************************************************)
EXTENDS Integers, FiniteSets, Sequences, TLC

(* ------------------------------ bounds -------------------------------- *)
\* number of worker threads of one Parallel(...) call (run's `jobs`)
Jobs == 2
\* how many times create is called in all
MaxCreates == 2

\* collection-name prefixes (the values of the endpoints dict)
Prefixes == {"p1", "p2"}
\* record identifiers and set specs a remote repository may list
RecIds == {"A", "B", "C"}
SetIds == {"s1"}
\* smaller repositories: of the general specification, and of two endpoints
TwoRecIds == {"A", "B"}
FewRecIds == {"A"}

\* self.mongo_db of the harvester, and the databases a caller may name
mongo_db == "dspace"
Databases == {"dspace", "other"}
\* the key of the collections <e>_* of database db
Coll(db, e) == IF db = mongo_db THEN e ELSE IF e = "p1" THEN "other/p1" ELSE "other/p2"
Namespaces == {Coll(db, e) : db \in Databases, e \in Prefixes}

(* --------------------------- remote content --------------------------- *)
\* name of a set, second component of a listSets() item
SetName(s) == "Set One"
\* members of a set, as listIdentifiers(set=s) enumerates them
SetMembers(s) == <<"A", "B">>

(* ----------------------------- BSON values ---------------------------- *)
\* an _id that is a string
StrId(i) == [type |-> "string", _id |-> i, name |-> ""]
\* an _id that is an embedded document {"_id": i, "name": n}
DocId(i, n) == [type |-> "document", _id |-> i, name |-> n]

(* ------------------------------- state -------------------------------- *)
VARIABLES
  endpoints,  \* OxomoHarvester.endpoints: the configured prefixes, in order
  identity,   \* <prefix>_identity: whether the collection holds the identify() document
  recCkp,     \* <prefix>_records_checkpoint: [present, docs: id -> status]
  setCkp,     \* <prefix>_sets_checkpoint:    [present, docs: id -> [name, status]]
  sink,       \* <prefix>_records / _deleted / _errors / _sets
  calls,      \* number of create calls made so far
  cr,         \* the create call in progress: [pc, e, identifiers, sets, before]; pc
              \* "failed" = the adapter raised, "error" = insert_many raised, "done" =
              \* line 84 reached; before = the three collections as the call found them
  run,        \* the run call in progress: [pc, idx, record_ids, set_ids, queue, squeue]
  inflight,   \* process_record / process_set invocations between two steps
  omitted,    \* prefixes reported "checkpoint not found" by the current run
  hist,       \* history of the current endpoint pass (what was pending, adapter answers)
  ret         \* the last direct call of exists: [e, val, seq, rec, set]; seq tells two
              \* calls apart, rec and set are the two ledgers as they were at the call

vars == <<endpoints, ret, identity, recCkp, setCkp, sink, calls, cr, run, inflight, omitted, hist>>
store == <<identity, recCkp, setCkp, sink>>

NoDocs == [i \in {} |-> 0]
\* a collection that does not exist (never created, or dropped)
NoColl == [present |-> FALSE, docs |-> NoDocs]
EmptySink == [records |-> {}, deleted |-> {}, errors |-> {}, sets |-> {}]

Before(e) == [identity |-> identity[e], recCkp |-> recCkp[e], setCkp |-> setCkp[e]]
NoBefore == [identity |-> FALSE, recCkp |-> NoColl, setCkp |-> NoColl]
CrIdle == [pc |-> "idle", e |-> "p1", identifiers |-> {}, sets |-> {}, before |-> NoBefore]
RunIdle == [pc |-> "idle", idx |-> 0, record_ids |-> {}, set_ids |-> {}, queue |-> {}, squeue |-> {}]
NoRet == [e |-> "p1", val |-> FALSE, seq |-> 0, rec |-> NoColl, set |-> NoColl]
NoHist == [fresh |-> FALSE, pending0 |-> {}, spending0 |-> {}, results |-> {}, twice |-> {}]

Range(s) == {s[i] : i \in 1..Len(s)}

(* -------------------------- MongoDB primitives ------------------------ *)
\* a drop that leaves the collection as it is
DropCollKeeps(c) == c

\* Collection.drop()
DropColl(c) == NoColl

\* Collection.insert_many(docs) raises when docs is empty
InsertManyRaises(docs) == DOMAIN docs = {}

\* Collection.insert_many(docs): the rows are added to those the collection holds
InsertMany(c, docs) ==
  [present |-> TRUE,
   docs |-> [i \in DOMAIN c.docs \cup DOMAIN docs |->
               IF i \in DOMAIN c.docs THEN c.docs[i] ELSE docs[i]]]

\* Collection.insert_one(doc) raises DuplicateKeyError when the _id is taken
DuplicateKey(coll, key) == \E d \in coll : d._id = key

(* --------------------------- OxomoCheckPoint -------------------------- *)
\* a check that is content with one of the two ledgers
exists_either(e) == recCkp[e].present \/ setCkp[e].present

\* a check that wants work left: both ledgers present and a row still pending
exists_pending(e) ==
  /\ recCkp[e].present /\ setCkp[e].present
  /\ \/ \E i \in DOMAIN recCkp[e].docs : recCkp[e].docs[i] = 0
     \/ \E x \in DOMAIN setCkp[e].docs : setCkp[e].docs[x].status = 0

\* exists(mongo_db, mongo_collection)
exists(e) == recCkp[e].present /\ setCkp[e].present

\* the ledger rows create builds from a listing: status = 0 for every id
RecordRows(L) == [i \in L |-> 0]
SetRows(S) == [s \in S |-> [name |-> SetName(s), status |-> 0]]

\* an update of every row once a row matches (update_many with no filter)
update_record_many(c, id) ==
  IF c.present /\ id \in DOMAIN c.docs THEN [c EXCEPT !.docs = [i \in DOMAIN c.docs |-> 1]] ELSE c

\* an update that inserts the row when no row matches (upsert=True)
update_record_upsert(c, id) ==
  IF ~c.present THEN [present |-> TRUE, docs |-> [i \in {id} |-> 1]]
  ELSE [c EXCEPT !.docs = [i \in DOMAIN c.docs \cup {id} |-> IF i = id THEN 1 ELSE c.docs[i]]]

\* update_record: update_one({"_id": id}, {"$set": {"status": 1}}), no upsert
update_record(c, id) ==
  IF c.present /\ id \in DOMAIN c.docs THEN [c EXCEPT !.docs[id] = 1] ELSE c

\* update_set: update_one({"_id": id}, {"$set": {"status": 1}}), no upsert
update_set(c, id) ==
  IF c.present /\ id \in DOMAIN c.docs THEN [c EXCEPT !.docs[id].status = 1] ELSE c

\* a read without the status filter: find({}, {"status": 0})
get_records_regs_all(c) == DOMAIN c.docs

\* get_records_regs: find({"status": 0}, {"status": 0}) -> the _id of each pending row
get_records_regs(c) == {i \in DOMAIN c.docs : c.docs[i] = 0}

\* get_sets_regs: find({"status": 0}, {"status": 0}) -> {_id, name} of each pending row
get_sets_regs(c) ==
  {[_id |-> s, name |-> c.docs[s].name] : s \in {x \in DOMAIN c.docs : c.docs[x].status = 0}}

Quiet == cr.pc = "idle" /\ run.pc = "idle"

\* create, lines 42-53: identify() answers; the identity collection is replaced
CreateIdentify(e) ==
  /\ Quiet /\ e \in Range(endpoints) /\ calls < MaxCreates
  /\ calls' = calls + 1
  /\ identity' = [identity EXCEPT ![e] = TRUE]
  /\ cr' = [pc |-> "listIdentifiers", e |-> e, identifiers |-> {}, sets |-> {}, before |-> Before(e)]
  /\ UNCHANGED <<endpoints, ret, recCkp, setCkp, sink, run, inflight, omitted, hist>>

\* create, lines 42-43: identify() raises; nothing has been written yet
CreateIdentifyFails(e) ==
  /\ Quiet /\ e \in Range(endpoints) /\ calls < MaxCreates
  /\ calls' = calls + 1
  /\ cr' = [pc |-> "failed", e |-> e, identifiers |-> {}, sets |-> {}, before |-> Before(e)]
  /\ UNCHANGED <<endpoints, ret, identity, recCkp, setCkp, sink, run, inflight, omitted, hist>>

\* create, lines 55-66: the listing L is materialised, the record ledger is
\* dropped and the rows inserted; insert_many raises on an empty listing
CreateRecords(L) ==
  /\ cr.pc = "listIdentifiers"
  /\ recCkp' = [recCkp EXCEPT ![cr.e] =
        IF InsertManyRaises(RecordRows(L)) THEN DropColl(@)
        ELSE InsertMany(DropColl(@), RecordRows(L))]
  /\ cr' = [cr EXCEPT !.identifiers = L,
                      !.pc = IF InsertManyRaises(RecordRows(L)) THEN "error" ELSE "listSets"]
  /\ UNCHANGED <<endpoints, ret, identity, setCkp, sink, calls, run, inflight, omitted, hist>>

\* create, lines 55-63: listIdentifiers raises, at the call or while iterating
CreateRecordsFails ==
  /\ cr.pc = "listIdentifiers"
  /\ cr' = [cr EXCEPT !.pc = "failed"]
  /\ UNCHANGED <<endpoints, ret, store, calls, run, inflight, omitted, hist>>

\* create, lines 70-83: the same for the sets returned by listSets()
CreateSets(S) ==
  /\ cr.pc = "listSets"
  /\ setCkp' = [setCkp EXCEPT ![cr.e] =
        IF InsertManyRaises(SetRows(S)) THEN DropColl(@)
        ELSE InsertMany(DropColl(@), SetRows(S))]
  /\ cr' = [cr EXCEPT !.sets = S,
                      !.pc = IF InsertManyRaises(SetRows(S)) THEN "error" ELSE "done"]
  /\ UNCHANGED <<endpoints, ret, identity, recCkp, sink, calls, run, inflight, omitted, hist>>

\* create, lines 70-80: listSets raises, at the call or while iterating
CreateSetsFails ==
  /\ cr.pc = "listSets"
  /\ cr' = [cr EXCEPT !.pc = "failed"]
  /\ UNCHANGED <<endpoints, ret, store, calls, run, inflight, omitted, hist>>

\* create returns (line 84) or its exception reaches the caller
CreateReturn ==
  /\ cr.pc \in {"done", "failed", "error"}
  /\ cr' = CrIdle
  /\ UNCHANGED <<endpoints, ret, store, calls, run, inflight, omitted, hist>>

\* a drop that removes the outcome collections as well
DropWithSinks(e) ==
  /\ Quiet /\ e \in Range(endpoints)
  /\ identity' = [identity EXCEPT ![e] = FALSE]
  /\ recCkp' = [recCkp EXCEPT ![e] = DropColl(@)]
  /\ setCkp' = [setCkp EXCEPT ![e] = DropColl(@)]
  /\ sink' = [sink EXCEPT ![e] = EmptySink]
  /\ UNCHANGED <<endpoints, ret, calls, cr, run, inflight, omitted, hist>>

\* drop(mongo_db, mongo_collection)
Drop(e) ==
  /\ Quiet /\ e \in Range(endpoints)
  /\ identity' = [identity EXCEPT ![e] = FALSE]
  /\ recCkp' = [recCkp EXCEPT ![e] = DropColl(@)]
  /\ setCkp' = [setCkp EXCEPT ![e] = DropColl(@)]
  /\ UNCHANGED <<endpoints, ret, sink, calls, cr, run, inflight, omitted, hist>>

\* exists(mongo_db, mongo_collection) called directly; the value it returns is kept
ExistsCall(e) ==
  /\ Quiet /\ e \in Range(endpoints)
  /\ ret' = [e |-> e, val |-> exists(e), seq |-> 1 - ret.seq,
              rec |-> recCkp[e], set |-> setCkp[e]]
  /\ UNCHANGED <<endpoints, store, calls, cr, run, inflight, omitted, hist>>

(* --------------------------- OxomoHarvester --------------------------- *)
\* the prefix the run loop is at (mongo_collection, line 146)
Cur == endpoints[run.idx]

\* the content of a record, raw_record[1].getMap()
Metadata(i) == <<"oai_dc", i>>

\* one invocation of process_record / process_set that has got the adapter's answer
Unit(k, i, n, r) == [kind |-> k, id |-> i, name |-> n, res |-> r, step |-> "insert"]

\* the sink process_record writes to and the document it writes
RecordSink(r) == CASE r = "fail" -> "errors" [] r = "deleted" -> "deleted" [] OTHER -> "records"
RecordDoc(i, r) ==
  CASE r = "fail" -> [_id |-> StrId(i), item_type |-> "record"]
    [] r = "deleted" -> [_id |-> StrId(i)]
    [] OTHER -> [_id |-> StrId(i), map |-> Metadata(i)]

\* the sink process_set writes to and the document it writes
SetSink(r) == IF r = "fail" THEN "errors" ELSE "sets"
SetDoc(i, n, r) ==
  IF r = "fail" THEN [_id |-> DocId(i, n), item_type |-> "set"]
  ELSE [_id |-> StrId(i), name |-> n, records |-> SetMembers(i)]

\* what the history keeps of a dispatch
Note(k, i, r) ==
  [hist EXCEPT !.results = @ \cup {[kind |-> k, id |-> i, res |-> r]},
               !.twice = @ \cup {x \in {[kind |-> k, id |-> i]} :
                                   \E y \in hist.results : y.kind = k /\ y.id = i}]

\* run, lines 141-144: the loop over the endpoints starts
RunStart ==
  /\ Quiet
  /\ run' = [RunIdle EXCEPT !.pc = "endpoint", !.idx = 1]
  /\ omitted' = {}
  /\ hist' = NoHist
  /\ UNCHANGED <<endpoints, ret, store, calls, cr, inflight>>

\* run, lines 148-151: the checkpoint exists; the pending record ids are read
RunEndpoint ==
  /\ run.pc = "endpoint" /\ run.idx <= Len(endpoints)
  /\ exists(Cur)
  /\ run' = [run EXCEPT !.pc = "records",
                        !.record_ids = get_records_regs(recCkp[Cur]),
                        !.queue = get_records_regs(recCkp[Cur]),
                        !.set_ids = {}, !.squeue = {}]
  /\ hist' = [NoHist EXCEPT
        !.fresh = /\ \A i \in DOMAIN recCkp[Cur].docs : recCkp[Cur].docs[i] = 0
                  /\ \A x \in DOMAIN setCkp[Cur].docs : setCkp[Cur].docs[x].status = 0,
        !.pending0 = {i \in DOMAIN recCkp[Cur].docs : recCkp[Cur].docs[i] # 1}]
  /\ UNCHANGED <<endpoints, ret, store, calls, cr, inflight, omitted>>

\* run, lines 160-163: no checkpoint; the endpoint is reported and omitted
RunOmit ==
  /\ run.pc = "endpoint" /\ run.idx <= Len(endpoints)
  /\ ~exists(Cur)
  /\ omitted' = omitted \cup {Cur}
  /\ run' = [run EXCEPT !.idx = @ + 1]
  /\ UNCHANGED <<endpoints, ret, store, calls, cr, inflight, hist>>

\* run returns after the last endpoint
RunReturn ==
  /\ run.pc = "endpoint" /\ run.idx > Len(endpoints)
  /\ run' = RunIdle
  /\ omitted' = {}
  /\ hist' = NoHist
  /\ UNCHANGED <<endpoints, ret, store, calls, cr, inflight>>

\* process_record, lines 48-51: a worker takes the next id and getRecord answers r
ProcessRecordFetch(i, r) ==
  /\ run.pc = "records" /\ i \in run.queue
  /\ Cardinality(inflight) < Jobs
  /\ run' = [run EXCEPT !.queue = @ \ {i}]
  /\ inflight' = inflight \cup {Unit("record", i, "", r)}
  /\ hist' = Note("record", i, r)
  /\ UNCHANGED <<endpoints, ret, store, calls, cr, omitted>>

\* process_record, lines 52-58, 67-70, 76-79: insert_one into the sink; a taken
\* _id raises DuplicateKeyError, which leaves process_record and ends the Parallel call
ProcessRecordInsert(u) ==
  /\ u \in inflight /\ u.kind = "record" /\ u.step = "insert"
  /\ IF DuplicateKey(sink[Cur][RecordSink(u.res)], StrId(u.id))
     THEN /\ inflight' = inflight \ {u}
          /\ run' = [run EXCEPT !.pc = "aborted"]
          /\ UNCHANGED sink
     ELSE /\ sink' = [sink EXCEPT ![Cur][RecordSink(u.res)] = @ \cup {RecordDoc(u.id, u.res)}]
          /\ inflight' = (inflight \ {u}) \cup {[u EXCEPT !.step = "update"]}
          /\ UNCHANGED run
  /\ UNCHANGED <<endpoints, ret, identity, recCkp, setCkp, calls, cr, omitted, hist>>

\* process_record, lines 59-64, 71-74, 80-81: the ledger row is marked done
ProcessRecordUpdate(u) ==
  /\ u \in inflight /\ u.kind = "record" /\ u.step = "update"
  /\ recCkp' = [recCkp EXCEPT ![Cur] = update_record(@, u.id)]
  /\ inflight' = inflight \ {u}
  /\ UNCHANGED <<endpoints, ret, identity, setCkp, sink, calls, cr, run, omitted, hist>>

\* a Parallel(...) that returns once every task has been handed to a worker
TasksDispatched(q) == q = {}

\* run, lines 152-153: Parallel(...) returns when every task it was given is over
TasksOver(q) == q = {} /\ inflight = {}

\* run, lines 152-156: every record task is over; the pending sets are read
RecordsBarrier ==
  /\ run.pc = "records" /\ TasksOver(run.queue)
  /\ run' = [run EXCEPT !.pc = "sets",
                        !.set_ids = get_sets_regs(setCkp[Cur]),
                        !.squeue = get_sets_regs(setCkp[Cur])]
  /\ hist' = [hist EXCEPT !.spending0 =
        {x \in DOMAIN setCkp[Cur].docs : setCkp[Cur].docs[x].status # 1}]
  /\ UNCHANGED <<endpoints, ret, store, calls, cr, inflight, omitted>>

\* process_set, lines 99-102: listIdentifiers answers, or raises at the call
ProcessSetFetch(s, r) ==
  /\ run.pc = "sets" /\ s \in run.squeue
  /\ Cardinality(inflight) < Jobs
  /\ run' = [run EXCEPT !.squeue = @ \ {s}]
  /\ inflight' = inflight \cup {Unit("set", s._id, s.name, r)}
  /\ hist' = Note("set", s._id, r)
  /\ UNCHANGED <<endpoints, ret, store, calls, cr, omitted>>

\* process_set, lines 117-119: the listing raises while it is iterated, outside
\* the try block: the exception leaves process_set and ends the Parallel call
ProcessSetIterFails(s) ==
  /\ run.pc = "sets" /\ s \in run.squeue
  /\ Cardinality(inflight) < Jobs
  /\ run' = [run EXCEPT !.squeue = @ \ {s}, !.pc = "aborted"]
  /\ hist' = Note("set", s._id, "iterfail")
  /\ UNCHANGED <<endpoints, ret, store, calls, cr, inflight, omitted>>

\* process_set, lines 103-109, 120-126: insert_one into the sink
ProcessSetInsert(u) ==
  /\ u \in inflight /\ u.kind = "set" /\ u.step = "insert"
  /\ IF DuplicateKey(sink[Cur][SetSink(u.res)], SetDoc(u.id, u.name, u.res)._id)
     THEN /\ inflight' = inflight \ {u}
          /\ run' = [run EXCEPT !.pc = "aborted"]
          /\ UNCHANGED sink
     ELSE /\ sink' = [sink EXCEPT ![Cur][SetSink(u.res)] = @ \cup {SetDoc(u.id, u.name, u.res)}]
          /\ inflight' = (inflight \ {u}) \cup {[u EXCEPT !.step = "update"]}
          /\ UNCHANGED run
  /\ UNCHANGED <<endpoints, ret, identity, recCkp, setCkp, calls, cr, omitted, hist>>

\* process_set, lines 110-115, 127-128: the ledger row is marked done
ProcessSetUpdate(u) ==
  /\ u \in inflight /\ u.kind = "set" /\ u.step = "update"
  /\ setCkp' = [setCkp EXCEPT ![Cur] = update_set(@, u.id)]
  /\ inflight' = inflight \ {u}
  /\ UNCHANGED <<endpoints, ret, identity, recCkp, sink, calls, cr, run, omitted, hist>>

\* run, lines 157-158 and 144: every set task is over; on to the next endpoint
SetsBarrier ==
  /\ run.pc = "sets" /\ TasksOver(run.squeue)
  /\ run' = [RunIdle EXCEPT !.pc = "endpoint", !.idx = run.idx + 1]
  /\ hist' = NoHist
  /\ UNCHANGED <<endpoints, ret, store, calls, cr, inflight, omitted>>

\* the exception that ended a Parallel call leaves run (line 152 or 157); the
\* worker threads still running are not waited for and end with the process
RunRaises ==
  /\ run.pc = "aborted"
  /\ run' = RunIdle
  /\ inflight' = {}
  /\ omitted' = {}
  /\ hist' = NoHist
  /\ UNCHANGED <<endpoints, ret, store, calls, cr>>

\* the process running run is terminated from outside, at any step
Terminate ==
  /\ run.pc \notin {"idle", "aborted"}
  /\ run' = RunIdle
  /\ inflight' = {}
  /\ omitted' = {}
  /\ hist' = NoHist
  /\ UNCHANGED <<endpoints, ret, store, calls, cr>>

\* update_record / update_set called directly, for any id
MarkRecord(e, i) ==
  /\ Quiet /\ e \in Range(endpoints)
  /\ recCkp' = [recCkp EXCEPT ![e] = update_record(@, i)]
  /\ UNCHANGED <<endpoints, ret, identity, setCkp, sink, calls, cr, run, inflight, omitted, hist>>

MarkSet(e, x) ==
  /\ Quiet /\ e \in Range(endpoints)
  /\ setCkp' = [setCkp EXCEPT ![e] = update_set(@, x)]
  /\ UNCHANGED <<endpoints, ret, identity, recCkp, sink, calls, cr, run, inflight, omitted, hist>>

\* process_record(client, identifier, mongo_db, mongo_collection) called
\* directly, getRecord answering r: the outcome is inserted in database mongo_db
\* (lines 57, 69, 78), the ledger is updated in self.mongo_db (lines 59, 71, 80);
\* when insert_one raises, the call ends there
CallProcessRecord(db, e, i, r) ==
  /\ Quiet /\ e \in Range(endpoints)
  /\ IF DuplicateKey(sink[Coll(db, e)][RecordSink(r)], StrId(i))
     THEN UNCHANGED <<sink, recCkp>>
     ELSE /\ sink' = [sink EXCEPT ![Coll(db, e)][RecordSink(r)] = @ \cup {RecordDoc(i, r)}]
          /\ recCkp' = [recCkp EXCEPT ![Coll(mongo_db, e)] = update_record(@, i)]
  /\ UNCHANGED <<endpoints, ret, identity, setCkp, calls, cr, run, inflight, omitted, hist>>

\* process_set(client, identifier, mongo_db, mongo_collection) called directly,
\* listIdentifiers answering r at the call: the outcome is inserted in database
\* mongo_db (lines 108, 125), the ledger is updated in self.mongo_db (110, 127)
CallProcessSet(db, e, x, r) ==
  /\ Quiet /\ e \in Range(endpoints)
  /\ IF DuplicateKey(sink[Coll(db, e)][SetSink(r)], SetDoc(x, SetName(x), r)._id)
     THEN UNCHANGED <<sink, setCkp>>
     ELSE /\ sink' = [sink EXCEPT ![Coll(db, e)][SetSink(r)] = @ \cup {SetDoc(x, SetName(x), r)}]
          /\ setCkp' = [setCkp EXCEPT ![Coll(mongo_db, e)] = update_set(@, x)]
  /\ UNCHANGED <<endpoints, ret, identity, recCkp, calls, cr, run, inflight, omitted, hist>>

(* ------------------------------ Init ---------------------------------- *)
StoreInit ==
  /\ identity = [e \in Namespaces |-> FALSE]
  /\ recCkp = [e \in Namespaces |-> NoColl]
  /\ setCkp = [e \in Namespaces |-> NoColl]
  /\ sink = [e \in Namespaces |-> EmptySink]
  /\ ret = NoRet
  /\ calls = 0
  /\ cr = CrIdle
  /\ run = RunIdle
  /\ inflight = {}
  /\ omitted = {}
  /\ hist = NoHist

Init == endpoints = <<"p1">> /\ StoreInit

\* what getRecord may answer for each id: anything, or as in the scenario
\* "success for A, a deletion flag for B, throws for C"
AnyAnswer == [i \in RecIds |-> {"ok", "deleted", "fail"}]
ScenarioAnswer == [i \in RecIds |-> IF i = "A" THEN {"ok"} ELSE IF i = "B" THEN {"deleted"} ELSE {"fail"}]
\* what listIdentifiers(set=...) may answer at the call
AdapterSet == {"ok", "fail"}

\* the steps of run and of the tasks it starts, getRecord answering within RA
Harvest(RA) ==
  \/ RunStart \/ RunEndpoint \/ RunOmit \/ RunReturn
  \/ \E i \in run.queue : \E r \in RA[i] : ProcessRecordFetch(i, r)
  \/ \E u \in inflight : ProcessRecordInsert(u)
  \/ \E u \in inflight : ProcessRecordUpdate(u)
  \/ RecordsBarrier
  \/ \E s \in run.squeue, r \in AdapterSet : ProcessSetFetch(s, r)
  \/ \E s \in run.squeue : ProcessSetIterFails(s)
  \/ \E u \in inflight : ProcessSetInsert(u)
  \/ \E u \in inflight : ProcessSetUpdate(u)
  \/ SetsBarrier
  \/ RunRaises

\* the steps of create and drop, over a repository whose listing is a subset of U
Checkpoint(U) ==
  \/ \E e \in Prefixes : CreateIdentify(e)
  \/ \E e \in Prefixes : CreateIdentifyFails(e)
  \/ \E L \in SUBSET U : CreateRecords(L)
  \/ CreateRecordsFails
  \/ \E S \in SUBSET SetIds : CreateSets(S)
  \/ CreateSetsFails
  \/ CreateReturn
  \/ \E e \in Prefixes : Drop(e)

\* direct calls of the ledger updates
Marks ==
  \/ \E e \in Prefixes, i \in RecIds : MarkRecord(e, i)
  \/ \E e \in Prefixes, x \in SetIds : MarkSet(e, x)

\* one endpoint; the harvesting process may be terminated at any step
Next == Checkpoint(TwoRecIds) \/ Harvest(AnyAnswer) \/ Terminate
Spec == Init /\ [][Next]_vars

\* the steps by which a create call in progress goes on and returns
CreateProceeds(U) ==
  \/ \E L \in SUBSET U : CreateRecords(L)
  \/ CreateRecordsFails
  \/ \E S \in SUBSET SetIds : CreateSets(S)
  \/ CreateSetsFails
  \/ CreateReturn

\* the same steps; a call of create goes on until it returns, and run is called
\* again whenever no call is in progress and goes on until it returns or raises
SpecLive ==
  Init /\ [][Next]_vars /\ WF_vars(CreateProceeds(TwoRecIds)) /\ WF_vars(Harvest(AnyAnswer))

\* one endpoint; no run is terminated from outside
NextUninterrupted == Checkpoint(TwoRecIds) \/ Harvest(AnyAnswer)
SpecUninterrupted == Init /\ [][NextUninterrupted]_vars

\* one endpoint; the ledger updates are also called directly
NextApi == Checkpoint(TwoRecIds) \/ Harvest(AnyAnswer) \/ Terminate \/ Marks
SpecApi == Init /\ [][NextApi]_vars

\* one endpoint over three records, the adapter answering as in the scenario
NextScenario == Checkpoint(RecIds) \/ Harvest(ScenarioAnswer) \/ Terminate
SpecScenario == Init /\ [][NextScenario]_vars

\* one endpoint; the methods of the checkpoint are called directly, no run
Calls ==
  \/ \E e \in Prefixes : ExistsCall(e)
  \/ \E db \in Databases, e \in Prefixes, i \in FewRecIds, r \in {"ok", "fail"} :
       CallProcessRecord(db, e, i, r)
  \/ \E db \in Databases, e \in Prefixes, x \in SetIds, r \in AdapterSet :
       CallProcessSet(db, e, x, r)
NextCalls == Checkpoint(FewRecIds) \/ Marks \/ Calls
SpecCalls == Init /\ [][NextCalls]_vars

\* two endpoints over a small repository
InitMulti == endpoints = <<"p1", "p2">> /\ StoreInit
NextMulti == Checkpoint(FewRecIds) \/ Harvest(AnyAnswer) \/ Terminate
SpecMulti == InitMulti /\ [][NextMulti]_vars

(* ---------------------------- properties ------------------------------ *)
\* the sinks that hold an outcome document for record i / set x of prefix e
RecordOutcomes(e, i) ==
  {k \in {"records", "deleted", "errors"} : DuplicateKey(sink[e][k], StrId(i))}
SetOutcomes(e, x) ==
  {k \in {"sets"} : DuplicateKey(sink[e].sets, StrId(x))}
    \cup {k \in {"errors"} : \E d \in sink[e].errors : d.item_type = "set" /\ d._id._id = x}

RecordDone(e, i) == i \in DOMAIN recCkp[e].docs /\ recCkp[e].docs[i] = 1
SetDone(e, x) == x \in DOMAIN setCkp[e].docs /\ setCkp[e].docs[x].status = 1

\* what the current pass has dispatched, and the adapter failures among it
Dispatched(k) == {y.id : y \in {z \in hist.results : z.kind = k}}
Failures(k) == {y \in hist.results : y.kind = k /\ y.res \in {"fail", "iterfail"}}

\* C1: every ledger row that is done has exactly one outcome document across
\* the sinks: records/deleted/errors for a record, sets/errors for a set.
C1_ExactlyOneOutcome ==
  \A e \in Prefixes :
    /\ \A i \in RecIds : RecordDone(e, i) => Cardinality(RecordOutcomes(e, i)) = 1
    /\ \A x \in SetIds : SetDone(e, x) => Cardinality(SetOutcomes(e, x)) = 1

\* C2: within the epoch opened by the only create call made so far, no record
\* id and no set id has more than one outcome document in the sinks.
C2_AtMostOneOutcomePerEpoch ==
  \A e \in Prefixes : calls <= 1 =>
    /\ \A i \in RecIds : Cardinality(RecordOutcomes(e, i)) <= 1
    /\ \A x \in SetIds : Cardinality(SetOutcomes(e, x)) <= 1

\* a step of create or drop
CreateOrDropStep == cr.pc # "idle" \/ cr'.pc # "idle" \/ \E e \in Prefixes : Drop(e)

\* C3: outside create and drop, every step keeps the rows of both ledgers and
\* changes a status only from 0 (pending) to 1 (done); a row is neither added
\* nor removed, and none goes from done back to pending.
C3_LedgerMonotone ==
  [][CreateOrDropStep \/
     \A e \in Prefixes :
       /\ recCkp'[e].present = recCkp[e].present
       /\ DOMAIN recCkp'[e].docs = DOMAIN recCkp[e].docs
       /\ \A i \in DOMAIN recCkp[e].docs :
            \/ recCkp'[e].docs[i] = recCkp[e].docs[i]
            \/ recCkp[e].docs[i] = 0 /\ recCkp'[e].docs[i] = 1
       /\ setCkp'[e].present = setCkp[e].present
       /\ DOMAIN setCkp'[e].docs = DOMAIN setCkp[e].docs
       /\ \A x \in DOMAIN setCkp[e].docs :
            /\ setCkp'[e].docs[x].name = setCkp[e].docs[x].name
            /\ \/ setCkp'[e].docs[x].status = setCkp[e].docs[x].status
               \/ setCkp[e].docs[x].status = 0 /\ setCkp'[e].docs[x].status = 1]_vars

\* a ledger with a done row, a pending set row and an id that is not listed
C3_Witness ==
  /\ Quiet
  /\ DOMAIN recCkp["p1"].docs = {"A"} /\ recCkp["p1"].docs["A"] = 1
  /\ DOMAIN setCkp["p1"].docs = {"s1"} /\ setCkp["p1"].docs["s1"].status = 0

C5_FaultIsolation ==
  /\ Cardinality(Failures("record")) = 1 =>
       /\ run.pc # "aborted"
       /\ run.pc = "sets" =>
            \A y \in {z \in hist.results : z.kind = "record"} :
              /\ RecordDone(Cur, y.id)
              /\ RecordSink(y.res) \in RecordOutcomes(Cur, y.id)
  /\ Cardinality(Failures("set")) = 1 /\ Failures("record") = {} =>
       /\ run.pc # "aborted"
       /\ run.pc = "sets" /\ TasksOver(run.squeue) =>
            \A y \in {z \in hist.results : z.kind = "set"} :
              /\ SetDone(Cur, y.id)
              /\ SetSink(y.res) \in SetOutcomes(Cur, y.id)

\* C6: a pass that starts on a ledger whose rows are all pending and meets no
\* adapter failure is not ended by an exception, and ends with every record
\* row done with exactly one of Harvested Record / Deletion Marker and every
\* set row done with exactly one Harvested Set.
C6_FreshPassCompletes ==
  hist.fresh /\ Failures("record") = {} /\ Failures("set") = {} =>
    /\ run.pc # "aborted"
    /\ run.pc = "sets" =>
         \A i \in DOMAIN recCkp[Cur].docs :
           /\ RecordDone(Cur, i)
           /\ Cardinality(RecordOutcomes(Cur, i) \cap {"records", "deleted"}) = 1
    /\ run.pc = "sets" /\ TasksOver(run.squeue) =>
         \A x \in DOMAIN setCkp[Cur].docs :
           /\ SetDone(Cur, x)
           /\ Cardinality(SetOutcomes(Cur, x) \cap {"sets"}) = 1

\* C7: no record task and set task are in flight together; once the pending
\* sets have been read or a set task has started, every record task of the
\* run's snapshot has been dispatched and is over.
C7_PhaseBarrier ==
  /\ ~ \E u, v \in inflight : u.kind = "record" /\ v.kind = "set"
  /\ run.pc = "sets" \/ run.set_ids # {} \/ Dispatched("set") # {} =>
       /\ \A u \in inflight : u.kind # "record"
       /\ run.queue = {}
       /\ Dispatched("record") = run.record_ids

\* a set task in flight after two record tasks
C7_Witness ==
  /\ \E u \in inflight : u.kind = "set"
  /\ run.record_ids = {"A", "B"}
  /\ RecordDone(Cur, "A") /\ RecordDone(Cur, "B")

\* the checkpoint of e does not exist: one of the two ledgers is missing
CkpMissing(e) == ~recCkp[e].present \/ ~setCkp[e].present

\* C8: run never works on an endpoint whose checkpoint is missing; the step it
\* takes there changes no collection, calls no adapter, reports the endpoint
\* and moves to the next one.
C8_SkipMissing ==
  /\ [](run.pc \in {"records", "sets", "aborted"} => ~CkpMissing(Cur))
  /\ [](omitted \subseteq {endpoints[j] : j \in 1..(run.idx - 1)})
  /\ [][run.pc = "endpoint" /\ run.idx <= Len(endpoints) /\ CkpMissing(Cur)
          /\ run' # run /\ run'.pc # "idle" =>
         /\ store' = store /\ inflight' = inflight /\ hist' = hist
         /\ omitted' = omitted \cup {Cur}
         /\ run'.pc = "endpoint" /\ run'.idx = run.idx + 1]_vars

\* p1 was omitted (only its record ledger exists) and p2 is harvested
C8_Witness ==
  /\ omitted = {"p1"} /\ run.idx = 2 /\ run.pc = "sets"
  /\ recCkp["p1"].present /\ ~setCkp["p1"].present
  /\ \A i \in DOMAIN recCkp["p1"].docs : recCkp["p1"].docs[i] = 0
  /\ RecordDone("p2", "A") /\ RecordOutcomes("p2", "A") # {}

\* C9: once create has inserted the record rows, the record ledger holds
\* exactly the listed ids, all pending; when create completes, the set ledger
\* holds exactly the listed sets, all pending; whatever they held before.
C9_CreateResets ==
  /\ cr.pc \in {"listSets", "done"} =>
       /\ recCkp[cr.e].present
       /\ recCkp[cr.e].docs = [i \in cr.identifiers |-> 0]
       /\ Cardinality(DOMAIN recCkp[cr.e].docs) = Cardinality(cr.identifiers)
  /\ cr.pc = "done" =>
       /\ setCkp[cr.e].present
       /\ DOMAIN setCkp[cr.e].docs = cr.sets
       /\ \A x \in cr.sets : setCkp[cr.e].docs[x].status = 0

\* a second create completes on a ledger that held A done and B, of which
\* only A is still listed
C9_Witness ==
  /\ cr.pc = "done" /\ calls = 2
  /\ cr.identifiers = {"A"}
  /\ RecordOutcomes(cr.e, "A") # {} /\ RecordOutcomes(cr.e, "B") # {}

\* C10: when create ends because the adapter raised, each of the identity,
\* record-ledger and set-ledger collections is as the call found it or has
\* been dropped: none holds content inserted by that call.
C10_CreateFailsAtomically ==
  cr.pc = "failed" =>
    /\ identity[cr.e] => cr.before.identity
    /\ recCkp[cr.e] \in {cr.before.recCkp, NoColl}
    /\ setCkp[cr.e] \in {cr.before.setCkp, NoColl}

\* C11: exists returns true exactly when the record ledger and the set ledger
\* are both present, whatever rows they hold; after drop it would return false.
C11_ExistsIffBothLedgers ==
  /\ [][ret' # ret =>
         ret'.val = (recCkp[ret'.e].present /\ setCkp[ret'.e].present)]_vars
  /\ [][\A e \in Prefixes : Drop(e) => ~exists(e)']_vars

\* exists returned true on ledgers whose rows were all done
C11_Witness ==
  /\ ret.val
  /\ DOMAIN ret.rec.docs = {"A"} /\ ret.rec.docs["A"] = 1
  /\ DOMAIN ret.set.docs = {"s1"} /\ ret.set.docs["s1"].status = 1

\* C12: a drop step leaves the identity, record-ledger and set-ledger
\* collections of its prefix absent, whichever of them were present before, and
\* changes nothing else: the outcome sinks and the collections of the other
\* prefixes stay as they are; on collections already absent it changes nothing.
C12_DropIdempotent ==
  [][\A e \in Prefixes : Drop(e) =>
       /\ ~identity'[e]
       /\ ~recCkp'[e].present /\ DOMAIN recCkp'[e].docs = {}
       /\ ~setCkp'[e].present /\ DOMAIN setCkp'[e].docs = {}
       /\ sink' = sink
       /\ \A f \in Namespaces \ {e} :
            identity'[f] = identity[f] /\ recCkp'[f] = recCkp[f] /\ setCkp'[f] = setCkp[f]
       /\ (~identity[e] /\ ~recCkp[e].present /\ ~setCkp[e].present => store' = store)]_vars

\* the checkpoint of a harvested prefix has been dropped; its outcomes remain
C12_Witness ==
  /\ Quiet
  /\ ~identity["p1"] /\ ~recCkp["p1"].present /\ ~setCkp["p1"].present
  /\ sink["p1"].records # {} /\ sink["p1"].sets # {}

\* C13: a call of update_record (update_set) sets the status of the row with
\* the given id to done and changes nothing else: the other rows, the other
\* ledger, the identity, the sinks and the other prefixes stay as they are; when
\* the id is already done or not in the ledger, the call changes nothing and no
\* row is created.
C13_UpdateFrame ==
  [][/\ \A e \in Prefixes, i \in RecIds : MarkRecord(e, i) =>
          /\ identity' = identity /\ setCkp' = setCkp /\ sink' = sink
          /\ \A f \in Namespaces \ {e} : recCkp'[f] = recCkp[f]
          /\ recCkp'[e].present = recCkp[e].present
          /\ DOMAIN recCkp'[e].docs = DOMAIN recCkp[e].docs
          /\ \A j \in DOMAIN recCkp[e].docs :
               recCkp'[e].docs[j] = IF j = i THEN 1 ELSE recCkp[e].docs[j]
          /\ (i \notin DOMAIN recCkp[e].docs \/ RecordDone(e, i) => store' = store)
     /\ \A e \in Prefixes, x \in SetIds : MarkSet(e, x) =>
          /\ identity' = identity /\ recCkp' = recCkp /\ sink' = sink
          /\ \A f \in Namespaces \ {e} : setCkp'[f] = setCkp[f]
          /\ setCkp'[e].present = setCkp[e].present
          /\ DOMAIN setCkp'[e].docs = DOMAIN setCkp[e].docs
          /\ \A y \in DOMAIN setCkp[e].docs :
               setCkp'[e].docs[y] =
                 IF y = x THEN [name |-> setCkp[e].docs[y].name, status |-> 1]
                 ELSE setCkp[e].docs[y]
          /\ (x \notin DOMAIN setCkp[e].docs \/ SetDone(e, x) => store' = store)]_vars

\* direct calls have marked record A and set s1 done while record B is still
\* pending; nothing has been harvested
C13_Witness ==
  /\ Quiet
  /\ RecordDone("p1", "A") /\ SetDone("p1", "s1")
  /\ "B" \in DOMAIN recCkp["p1"].docs /\ recCkp["p1"].docs["B"] = 0
  /\ sink["p1"] = EmptySink

\* the collections of namespace f are left as they are
Same(f) ==
  /\ identity'[f] = identity[f] /\ recCkp'[f] = recCkp[f]
  /\ setCkp'[f] = setCkp[f] /\ sink'[f] = sink[f]

\* C14: every step of create writes only to the collections of the prefix it
\* was called for, every step of run and of its tasks only to those of the
\* endpoint the run is at, and an invocation of process_record or process_set
\* for (database, prefix) writes its outcome and its ledger update only to the
\* collections of that database and prefix.
C14_EndpointScoping ==
  [][/\ cr'.pc # "idle" => \A f \in Namespaces \ {cr'.e} : Same(f)
     /\ run.pc \in {"records", "sets", "aborted"} => \A f \in Namespaces \ {Cur} : Same(f)
     /\ \A db \in Databases, e \in Prefixes, i \in RecIds, r \in {"ok", "deleted", "fail"} :
          CallProcessRecord(db, e, i, r) => \A f \in Namespaces \ {Coll(db, e)} : Same(f)
     /\ \A db \in Databases, e \in Prefixes, x \in SetIds, r \in AdapterSet :
          CallProcessSet(db, e, x, r) => \A f \in Namespaces \ {Coll(db, e)} : Same(f)]_vars

\* C15: an invocation of process_record whose adapter answer is r inserts the
\* document of r (Error Record for a failure, Deletion Marker for a deleted
\* item, Harvested Record otherwise) into the sink of r and into no other sink,
\* is not ended by an exception, and then marks the ledger row done. A pass over
\* A, B, C, all pending, with success for A, a deletion for B and a failure for
\* C ends with Harvested Record A, Deletion Marker B, Error Record C, all done.
C15_OutcomeRouting ==
  /\ [][\A u \in inflight : ProcessRecordInsert(u) =>
          /\ run'.pc # "aborted"
          /\ sink'[Cur][RecordSink(u.res)] = sink[Cur][RecordSink(u.res)] \cup {RecordDoc(u.id, u.res)}
          /\ \A k \in {"records", "deleted", "errors", "sets"} \ {RecordSink(u.res)} :
               sink'[Cur][k] = sink[Cur][k]
          /\ [u EXCEPT !.step = "update"] \in inflight']_vars
  /\ [][\A u \in inflight : ProcessRecordUpdate(u) =>
          sink' = sink /\ RecordDone(Cur, u.id)']_vars
  /\ [](run.pc = "sets" /\ hist.pending0 = {"A", "B", "C"}
          /\ hist.results \cap {y \in hist.results : y.kind = "record"} =
               {[kind |-> "record", id |-> "A", res |-> "ok"],
                [kind |-> "record", id |-> "B", res |-> "deleted"],
                [kind |-> "record", id |-> "C", res |-> "fail"]} =>
        /\ RecordDoc("A", "ok") \in sink[Cur].records
        /\ RecordDoc("B", "deleted") \in sink[Cur].deleted
        /\ RecordDoc("C", "fail") \in sink[Cur].errors
        /\ \A i \in {"A", "B", "C"} : RecordDone(Cur, i))

\* C16: when listIdentifiers(set=id) fails, at the call or while the listing is
\* iterated, process_set is not ended by the exception: it inserts an Error
\* Record whose _id is the set id and whose item type is set, inserts no
\* Harvested Set, and marks the set row done.
C16_SetErrorHandling ==
  /\ [][\A s \in run.squeue : ProcessSetIterFails(s) => run'.pc # "aborted"]_vars
  /\ [][\A u \in inflight : u.res = "fail" /\ ProcessSetInsert(u) =>
          /\ run'.pc # "aborted"
          /\ sink'[Cur].errors =
               sink[Cur].errors \cup {[_id |-> StrId(u.id), item_type |-> "set"]}
          /\ sink'[Cur].sets = sink[Cur].sets]_vars
  /\ [][\A u \in inflight : ProcessSetUpdate(u) => SetDone(Cur, u.id)']_vars

\* every row of both ledgers of prefix e is done
AllDone(e) ==
  /\ \A i \in DOMAIN recCkp[e].docs : recCkp[e].docs[i] = 1
  /\ \A x \in DOMAIN setCkp[e].docs : setCkp[e].docs[x].status = 1

\* C17: when the process is terminated only finitely often, at whatever steps,
\* the runs that follow bring every row of an existing checkpoint to done:
\* from some point on every ledger row of the endpoint is done.
C17_ResumableProgress ==
  <>[][~Terminate]_vars => <>[](exists("p1") => AllDone("p1"))

\* C18: a termination between an item's outcome insert and its ledger update
\* leaves the row pending and the outcome in its sink; a later run dispatches
\* the item again, and the insert of an outcome whose id the sink already holds
\* (after such a crash, or after create has reset the ledger) completes: it
\* does not raise, and the item goes on to its ledger update.
C18_DuplicateOnRefetch ==
  /\ [][Terminate =>
         \A u \in inflight : u.kind = "record" /\ u.step = "update" =>
           /\ recCkp'[Cur].docs[u.id] = 0
           /\ RecordDoc(u.id, u.res) \in sink'[Cur][RecordSink(u.res)]]_vars
  /\ [][\A i \in run.queue, r \in {"ok", "deleted", "fail"} :
          ProcessRecordFetch(i, r) => ~RecordDone(Cur, i)]_vars
  /\ [][\A u \in inflight :
          ProcessRecordInsert(u) /\ DuplicateKey(sink[Cur][RecordSink(u.res)], StrId(u.id)) =>
            /\ run'.pc # "aborted"
            /\ [u EXCEPT !.step = "update"] \in inflight']_vars

\* the record phase (the set phase) of the current pass has ended, by the
\* return of its Parallel call or by an exception with no task left running
RecordPhaseOver == run.pc = "sets" \/ (run.pc = "aborted" /\ inflight = {})
SetPhaseOver ==
  \/ run.pc = "sets" /\ TasksOver(run.squeue)
  \/ run.pc = "aborted" /\ inflight = {} /\ Dispatched("set") # {}

\* the ids of the phase that have been processed to the end
Processed(k) ==
  IF k = "record" THEN {i \in hist.pending0 : RecordDone(Cur, i)}
  ELSE {x \in hist.spending0 : SetDone(Cur, x)}

\* C19: the steps of concurrent units do not interfere: a ledger update changes
\* the row of its own id only, so none is lost; and the state a phase ends in
\* does not depend on the order of the steps, which every sequential order can
\* match only if the phase ends with all of its pending ids processed, each
\* with its outcome in the sink of its adapter answer, or with none of them.
C19_UnitsIndependent ==
  /\ [][\A u \in inflight : ProcessRecordUpdate(u) =>
          /\ DOMAIN recCkp'[Cur].docs = DOMAIN recCkp[Cur].docs
          /\ \A j \in DOMAIN recCkp[Cur].docs :
               recCkp'[Cur].docs[j] = IF j = u.id THEN 1 ELSE recCkp[Cur].docs[j]]_vars
  /\ [][\A u \in inflight : ProcessSetUpdate(u) =>
          /\ DOMAIN setCkp'[Cur].docs = DOMAIN setCkp[Cur].docs
          /\ \A y \in DOMAIN setCkp[Cur].docs :
               setCkp'[Cur].docs[y].status = IF y = u.id THEN 1 ELSE setCkp[Cur].docs[y].status]_vars
  /\ [](RecordPhaseOver =>
          /\ Processed("record") \in {hist.pending0, {}}
          /\ \A i \in Processed("record") : \E y \in hist.results :
               /\ y.kind = "record" /\ y.id = i
               /\ RecordDoc(i, y.res) \in sink[Cur][RecordSink(y.res)])
  /\ [](SetPhaseOver =>
          /\ Processed("set") \in {hist.spending0, {}}
          /\ \A x \in Processed("set") : \E y \in hist.results :
               /\ y.kind = "set" /\ y.id = x
               /\ \E d \in sink[Cur][SetSink(y.res)] : d._id._id = x)

\* C20: a create call whose identify, listIdentifiers and listSets all answer,
\* with a listing of zero records or zero sets as well, is not ended by an
\* error of the store and completes with both ledger collections present, so
\* that exists is true when it returns.
C20_CreateEmptyListing ==
  /\ cr.pc # "error"
  /\ cr.pc = "done" => exists(cr.e)

====
